---- MODULE Spec2Model ----
(***************************************************************************)
(* Pixellate: the Gradio handler PixellateUI.process_image and the         *)
(* ImageProcessor it drives (crop_to_square, compress_jpeg, compress_png,  *)
(* process_image), modelled as a state machine.                            *)
(*                                                                         *)
(* A bitmap is a record [width, height, mode, quality]: quality is 0 for   *)
(* a bitmap that never went through a JPEG encode and q for one decoded    *)
(* from a JPEG buffer written at quality q.  The byte length of an encode  *)
(* is decided by Pillow and the pixel data; an encode attempt draws it     *)
(* from EncodedSizes, except that an encode repeating the format, bitmap   *)
(* and quality of the attempt before it yields the same byte length (the   *)
(* encoder is deterministic; a request repeats an encode only when two     *)
(* consecutive scale factors truncate to the same dimensions).             *)
(*                                                                         *)
(* scale_factor is an IEEE double in the code.  0.9 - 0.05 is the double   *)
(* nearest 0.85, every later subtraction lands just below the nominal      *)
(* hundredth (0.7999999999999999, 0.7499999999999999, ...,                 *)
(* 0.4999999999999997).  A scale is the record [pct, below]: pct the       *)
(* nominal hundredths, below TRUE when the double is under pct/100.        *)
(* ScaledDim agrees with int(target * scale_factor) for targets below 25.  *)
(***************************************************************************)
EXTENDS Integers, Sequences, FiniteSets, TLC

\* ------------------------------------------------------------------ bounds
MaxSrc == 3
MaxCrop == 1
MaxWidth == 3
MaxHeight == 2
MaxBytes == 2
MaxSize == 3
MaxStepFactor == 2

\* ------------------------------------------------------------------ config
jpeg_initial_quality == 95
jpeg_min_quality == 10
jpeg_quality_step == 5
min_scale_factor == 50
scale_factor_step == 5
initial_scale_factor == 90
export_jpeg_quality == 95

\* DEFAULT_CONFIG = Config(): the compression settings read by compress_jpeg.
DEFAULT_CONFIG ==
    [jpeg_initial_quality |-> jpeg_initial_quality,
     jpeg_min_quality |-> jpeg_min_quality,
     jpeg_quality_step |-> jpeg_quality_step]

\* Config objects an ImageProcessor can be constructed with: the default and
\* ones with a coarser jpeg_quality_step.
Configs ==
    {[DEFAULT_CONFIG EXCEPT !.jpeg_quality_step = jpeg_quality_step * k] :
        k \in 1..MaxStepFactor}

\* ------------------------------------------------------------- value spaces
None == [width |-> 0, height |-> 0, mode |-> "None", quality |-> 0]

Modes == {"RGB", "P"}

SourceImages ==
    [width : 1..MaxSrc, height : 1..MaxSrc, mode : Modes, quality : {0}]

Formats == {"jpg", "jpeg", "png", "gif"}

EncodedSizes == 1..MaxSize

Info(kind, size, q, w, h) ==
    [kind |-> kind, file_size |-> size, quality |-> q, width |-> w, height |-> h]

NoInfo == Info("", 0, 0, 0, 0)

\* The file written by export_to_format for the button format_type; format is
\* "None" when the handler returns None instead of a path.
ExportFile(format_type, format, img, q, size) ==
    [format_type |-> format_type, format |-> format, width |-> img.width,
     height |-> img.height, quality |-> q, size |-> size]

NoExport == ExportFile("", "None", None, 0, 0)

\* ---------------------------------------------------------- pure functions
Min(a, b) == IF a <= b THEN a ELSE b

\* Mutant of CropLeft: the margin is not halved.
CropLeftUncentered(width, height) == width - Min(width, height)

CropLeft(width, height) == (width - Min(width, height)) \div 2

CropTop(width, height) == (height - Min(width, height)) \div 2

CropBox(width, height) ==
    [left   |-> CropLeft(width, height),
     top    |-> CropTop(width, height),
     right  |-> CropLeft(width, height) + Min(width, height),
     bottom |-> CropTop(width, height) + Min(width, height)]

NoBox == [left |-> 0, top |-> 0, right |-> 0, bottom |-> 0]

\* Image.resize (crop_to_square, process_image, both scale loops): Pillow
\* raises ValueError("height and width must be > 0") when either side of the
\* requested size is below 1; process_image catches ValueError.
ResizeRaises(w, h) == w < 1 \/ h < 1

Resize(img, w, h) == [img EXCEPT !.width = w, !.height = h]

\* Image.save(buffer, format='JPEG'): Pillow raises OSError("cannot write
\* mode P as JPEG") for a palette bitmap; process_image catches OSError.
SaveRaises(img, format) == format = "JPEG" /\ img.mode = "P"

\* Image.open(buffer) of a JPEG written at quality q.
Decoded(img, q) == [img EXCEPT !.mode = "RGB", !.quality = q]

ConvertPalette(img) == [img EXCEPT !.mode = "P"]

\* Mutant of Fits: the budget comparison off by one byte.
FitsOffByOne(size, max) == size <= max + 1

Fits(size, max) == size <= max

IsJpeg(fmt) == fmt \in {"jpg", "jpeg"}

InitialScale == [pct |-> initial_scale_factor, below |-> FALSE]

ScaleDecrement(s) ==
    [pct |-> s.pct - scale_factor_step, below |-> s.below \/ s.pct <= 85]

ScaleBelowMin(s) ==
    s.pct < min_scale_factor \/ (s.pct = min_scale_factor /\ s.below)

\* int(target * scale_factor): truncation toward zero of the double product.
ScaledDim(target, s) ==
    IF s.pct <= 0
    THEN 0 - ((0 - target * s.pct) \div 100)
    ELSE IF s.below /\ target > 0 /\ (target * s.pct) % 100 = 0
         THEN (target * s.pct) \div 100 - 1
         ELSE (target * s.pct) \div 100

Attempt(format, img, q, size, max) ==
    [format |-> format, width |-> img.width, height |-> img.height,
     mode |-> img.mode, quality |-> q, within |-> size <= max]

\* -------------------------------------------------------------------- state
VARIABLES
    output_image,           \* gr.Image "Processed Photo"
    info_output,            \* gr.Textbox "Processing Info"
    processed_image_state,  \* gr.State read by the export buttons
    pc,                     \* position of the running request
    args,                   \* arguments of ImageProcessor.process_image
    box,                    \* crop box of crop_to_square
    processed,              \* local "processed" / "cropped"
    quality,                \* local of compress_jpeg
    scale_factor,           \* local of compress_jpeg / compress_png
    file_size,              \* local: buffer.tell() of the latest encode
    attempts,               \* encodes performed by the running request
    ret,                    \* (image, info) returned by process_image
    had_output,             \* history: an image was held before the latest
                            \* completed request wrote the outputs
    config,                 \* self.config of the ImageProcessor
    export_ret,             \* value returned by the running export handler
    held_budget             \* history: max_file_size_bytes of the request
                            \* that produced processed_image_state

vars == <<output_image, info_output, processed_image_state, pc, args, box,
          processed, quality, scale_factor, file_size, attempts, ret,
          had_output, config, export_ret, held_budget>>

\* What the steps of the processor leave alone.
ui == <<output_image, info_output, processed_image_state, had_output, config,
        export_ret, held_budget>>

processor == <<args, box, processed, quality, scale_factor, file_size,
               attempts, ret>>

QualityDecrement(q) == q - config.jpeg_quality_step

NoArgs ==
    [image |-> None, crop_size_pixels |-> 0, target_width |-> 0,
     target_height |-> 0, max_file_size_bytes |-> 0, output_format |-> ""]

NoRet == [image |-> None, info |-> NoInfo]

Init ==
    /\ output_image = None
    /\ info_output = NoInfo
    /\ processed_image_state = None
    /\ pc = "idle"
    /\ args = NoArgs
    /\ box = NoBox
    /\ processed = None
    /\ quality = 0
    /\ scale_factor = InitialScale
    /\ file_size = 0
    /\ attempts = <<>>
    /\ ret = NoRet
    /\ had_output = FALSE
    /\ config = DEFAULT_CONFIG
    /\ export_ret = NoExport
    /\ held_budget = 0

\* The application constructed with a Config other than the default:
\* PixellateUI(config) / ImageProcessor(config).
InitConfig ==
    /\ output_image = None
    /\ info_output = NoInfo
    /\ processed_image_state = None
    /\ pc = "idle"
    /\ args = NoArgs
    /\ box = NoBox
    /\ processed = None
    /\ quality = 0
    /\ scale_factor = InitialScale
    /\ file_size = 0
    /\ attempts = <<>>
    /\ ret = NoRet
    /\ had_output = FALSE
    /\ config \in Configs
    /\ export_ret = NoExport
    /\ held_budget = 0

\* buffer.tell() after image.save(buffer, ...): the byte lengths the encode
\* of img can have.
SaveSizes(format, img, q) ==
    IF /\ attempts # <<>>
       /\ attempts[Len(attempts)].format = format
       /\ attempts[Len(attempts)].width = img.width
       /\ attempts[Len(attempts)].height = img.height
       /\ attempts[Len(attempts)].mode = img.mode
       /\ attempts[Len(attempts)].quality = q
    THEN {file_size}
    ELSE EncodedSizes

\* Mutant of Raise: the except clause hands back the bitmap in progress.
RaiseKeepsImage ==
    /\ ret' = [image |-> processed, info |-> Info("Error", 0, 0, 0, 0)]
    /\ pc' = "return"

\* The except clause of process_image: (None, "Error processing image: ...").
Raise ==
    /\ ret' = [image |-> None, info |-> Info("Error", 0, 0, 0, 0)]
    /\ pc' = "return"

\* return processed, info
Return(img, info) ==
    /\ ret' = [image |-> img, info |-> info]
    /\ pc' = "return"

\* ------------------------------------------------------------------ actions
\* "Process Image" clicked with no image uploaded.
ClickNoImage ==
    /\ pc = "idle"
    /\ output_image' = None
    /\ info_output' = Info("NoImage", 0, 0, 0, 0)
    /\ processed_image_state' = None
    /\ had_output' = (processed_image_state # None)
    /\ held_budget' = 0
    /\ UNCHANGED <<pc, args, box, processed, quality, scale_factor,
                   file_size, attempts, ret, config, export_ret>>

\* "Process Image" clicked with an image: the handler calls
\* ImageProcessor.process_image, which enters crop_to_square and computes the
\* crop box and image.crop.
ClickProcess ==
    /\ pc = "idle"
    /\ \E img \in SourceImages, crop \in 0..MaxCrop, w \in 0..MaxWidth,
          h \in 1..MaxHeight, max \in 1..MaxBytes, fmt \in Formats :
          args' = [image |-> img, crop_size_pixels |-> crop,
                   target_width |-> w, target_height |-> h,
                   max_file_size_bytes |-> max, output_format |-> fmt]
    /\ box' = CropBox(args'.image.width, args'.image.height)
    /\ processed' = Resize(args'.image, box'.right - box'.left,
                           box'.bottom - box'.top)
    /\ pc' = "crop_resize"
    /\ UNCHANGED <<ui, quality, scale_factor, file_size, attempts, ret>>

\* crop_to_square: resize of the square to crop_size_pixels when it differs.
\* The source image and crop_size_pixels are not read after this point.
CropResize ==
    /\ pc = "crop_resize"
    /\ IF Min(args.image.width, args.image.height) # args.crop_size_pixels
       THEN IF ResizeRaises(args.crop_size_pixels, args.crop_size_pixels)
            THEN Raise /\ UNCHANGED processed
            ELSE /\ processed' = Resize(processed, args.crop_size_pixels,
                                        args.crop_size_pixels)
                 /\ pc' = "resize"
                 /\ UNCHANGED ret
       ELSE /\ pc' = "resize"
            /\ UNCHANGED <<processed, ret>>
    /\ box' = NoBox
    /\ args' = [args EXCEPT !.image = None, !.crop_size_pixels = 0]
    /\ UNCHANGED <<ui, quality, scale_factor, file_size, attempts>>

\* process_image step 2 and the codec dispatch of step 3.
ResizeAndDispatch ==
    /\ pc = "resize"
    /\ IF ResizeRaises(args.target_width, args.target_height)
       THEN Raise /\ UNCHANGED <<processed, quality>>
       ELSE /\ processed' = Resize(processed, args.target_width,
                                   args.target_height)
            /\ IF IsJpeg(args.output_format)
               THEN /\ quality' = config.jpeg_initial_quality
                    /\ pc' = "jpeg_quality"
               ELSE /\ pc' = "png_full"
                    /\ UNCHANGED quality
            /\ UNCHANGED ret
    /\ UNCHANGED <<ui, args, box, scale_factor, file_size, attempts>>

\* compress_jpeg, phase A: one pass of "while quality > jpeg_min_quality";
\* on loop exit scale_factor = 0.9 and control reaches the second loop.
JpegQualityLoop ==
    /\ pc = "jpeg_quality"
    /\ IF quality > config.jpeg_min_quality
       THEN IF SaveRaises(processed, "JPEG")
            THEN Raise /\ UNCHANGED <<processed, quality, scale_factor,
                                      file_size, attempts>>
            ELSE \E size \in SaveSizes("JPEG", processed, quality) :
                /\ file_size' = size
                /\ attempts' = Append(attempts,
                       Attempt("JPEG", processed, quality, size,
                               args.max_file_size_bytes))
                /\ IF Fits(size, args.max_file_size_bytes)
                   THEN /\ processed' = Decoded(processed, quality)
                        /\ Return(processed',
                                  Info("Success", size, quality, 0, 0))
                        /\ UNCHANGED quality
                   ELSE /\ quality' = QualityDecrement(quality)
                        /\ UNCHANGED <<processed, pc, ret>>
                /\ UNCHANGED scale_factor
       ELSE /\ scale_factor' = InitialScale
            /\ pc' = "jpeg_scale"
            /\ UNCHANGED <<processed, quality, file_size, attempts, ret>>
    /\ UNCHANGED <<ui, args, box>>

\* compress_jpeg, phase B: one pass of the second
\* "while quality > jpeg_min_quality"; on loop exit the final fallback.
JpegScaleLoop ==
    /\ pc = "jpeg_scale"
    /\ IF quality > config.jpeg_min_quality
       THEN LET new_width == ScaledDim(args.target_width, scale_factor)
                new_height == ScaledDim(args.target_height, scale_factor)
                temp_img == Resize(processed, new_width, new_height)
            IN  IF ResizeRaises(new_width, new_height)
                   \/ SaveRaises(temp_img, "JPEG")
                THEN Raise /\ UNCHANGED <<processed, quality, scale_factor,
                                          file_size, attempts>>
                ELSE \E size \in SaveSizes("JPEG", temp_img, quality) :
                    /\ file_size' = size
                    /\ attempts' = Append(attempts,
                           Attempt("JPEG", temp_img, quality, size,
                                   args.max_file_size_bytes))
                    /\ IF Fits(size, args.max_file_size_bytes)
                       THEN /\ processed' = Decoded(temp_img, quality)
                            /\ Return(processed',
                                      Info("ReducedSize", size, quality,
                                           new_width, new_height))
                            /\ UNCHANGED <<quality, scale_factor>>
                       ELSE /\ scale_factor' = ScaleDecrement(scale_factor)
                            /\ quality' = IF ScaleBelowMin(scale_factor')
                                          THEN QualityDecrement(quality)
                                          ELSE quality
                            /\ UNCHANGED <<processed, pc, ret>>
       ELSE IF SaveRaises(processed, "JPEG")
            THEN Raise /\ UNCHANGED <<processed, quality, scale_factor,
                                      file_size, attempts>>
            ELSE \E size \in SaveSizes("JPEG", processed, quality) :
                /\ file_size' = size
                /\ attempts' = Append(attempts,
                       Attempt("JPEG", processed, quality, size,
                               args.max_file_size_bytes))
                /\ Return(processed, Info("Warning", size, 0, 0, 0))
                /\ UNCHANGED <<processed, quality, scale_factor>>
    /\ UNCHANGED <<ui, args, box>>

\* compress_png, step 1: the encode of the bitmap as it is.
PngFull ==
    /\ pc = "png_full"
    /\ \E size \in SaveSizes("PNG", processed, 0) :
        /\ file_size' = size
        /\ attempts' = Append(attempts,
               Attempt("PNG", processed, 0, size, args.max_file_size_bytes))
        /\ IF Fits(size, args.max_file_size_bytes)
           THEN Return(processed, Info("Success", size, 0, 0, 0))
           ELSE pc' = "png_palette" /\ UNCHANGED ret
    /\ UNCHANGED <<ui, args, box, processed, quality, scale_factor>>

\* compress_png, step 2: palette conversion when the mode is not 'P', then
\* the test "if file_size > max_file_size_bytes" guarding the scale loop.
PngPalette ==
    /\ pc = "png_palette"
    /\ IF processed.mode # "P"
       THEN /\ processed' = ConvertPalette(processed)
            /\ \E size \in SaveSizes("PNG", processed', 0) :
                /\ file_size' = size
                /\ attempts' = Append(attempts,
                       Attempt("PNG", processed', 0, size,
                               args.max_file_size_bytes))
       ELSE UNCHANGED <<processed, file_size, attempts>>
    /\ IF ~Fits(file_size', args.max_file_size_bytes)
       THEN /\ scale_factor' = InitialScale
            /\ pc' = "png_scale"
            /\ UNCHANGED ret
       ELSE /\ Return(processed', Info("Warning", file_size', 0, 0, 0))
            /\ UNCHANGED scale_factor
    /\ UNCHANGED <<ui, args, box, quality>>

\* The condition of compress_png's while loop.
PngLoopContinues(size, max, s) == ~Fits(size, max) /\ ~ScaleBelowMin(s)

\* compress_png, step 3: one pass of the scale loop; on loop exit the
\* warning return.
PngScaleLoop ==
    /\ pc = "png_scale"
    /\ IF PngLoopContinues(file_size, args.max_file_size_bytes, scale_factor)
       THEN LET new_width == ScaledDim(args.target_width, scale_factor)
                new_height == ScaledDim(args.target_height, scale_factor)
                temp_img == Resize(processed, new_width, new_height)
            IN  IF ResizeRaises(new_width, new_height)
                THEN Raise /\ UNCHANGED <<processed, scale_factor,
                                          file_size, attempts>>
                ELSE \E size \in SaveSizes("PNG", temp_img, 0) :
                    /\ file_size' = size
                    /\ attempts' = Append(attempts,
                           Attempt("PNG", temp_img, 0, size,
                                   args.max_file_size_bytes))
                    /\ IF Fits(size, args.max_file_size_bytes)
                       THEN /\ processed' = temp_img
                            /\ Return(processed',
                                      Info("ReducedSize", size, 0,
                                           new_width, new_height))
                            /\ UNCHANGED scale_factor
                       ELSE /\ scale_factor' = ScaleDecrement(scale_factor)
                            /\ UNCHANGED <<processed, pc, ret>>
       ELSE /\ Return(processed, Info("Warning", file_size, 0, 0, 0))
            /\ UNCHANGED <<processed, scale_factor, file_size, attempts>>
    /\ UNCHANGED <<ui, args, box, quality>>

\* PixellateUI.process_image receives (processed_img, info) and Gradio writes
\* the handler's three outputs; the processor's locals go out of scope.
UIReturn ==
    /\ pc = "return"
    /\ output_image' = ret.image
    /\ info_output' = ret.info
    /\ processed_image_state' = ret.image
    /\ pc' = "idle"
    /\ args' = NoArgs
    /\ box' = NoBox
    /\ processed' = None
    /\ quality' = 0
    /\ scale_factor' = InitialScale
    /\ file_size' = 0
    /\ attempts' = <<>>
    /\ ret' = NoRet
    /\ had_output' = (processed_image_state # None)
    /\ held_budget' = IF ret.image # None THEN args.max_file_size_bytes ELSE 0
    /\ UNCHANGED <<config, export_ret>>

\* processed_img.save(temp_path, ...) followed by os.path.getsize: the byte
\* lengths the exported file can have.  Writing a bitmap that was decoded from
\* a JPEG of the same quality is taken to reproduce the byte length of that
\* JPEG, the case most favourable to the budget.
ExportSizes(format, img, q) ==
    IF format = "JPEG" /\ img.quality = q
    THEN {info_output.file_size}
    ELSE EncodedSizes

\* PixellateUI.export_to_format(processed_image_state, format_type): None
\* without a held image or when save raises, else the file saved with
\* quality=95 (JPEG) or as PNG.
export_to_format(format_type) ==
    /\ pc = "idle"
    /\ IF processed_image_state = None
       THEN export_ret' = ExportFile(format_type, "None", None, 0, 0)
       ELSE IF IsJpeg(format_type)
            THEN IF SaveRaises(processed_image_state, "JPEG")
                 THEN export_ret' = ExportFile(format_type, "None", None, 0, 0)
                 ELSE \E size \in ExportSizes("JPEG", processed_image_state,
                                              export_jpeg_quality) :
                        export_ret' = ExportFile(format_type, "JPEG",
                                                 processed_image_state,
                                                 export_jpeg_quality, size)
            ELSE \E size \in ExportSizes("PNG", processed_image_state, 0) :
                   export_ret' = ExportFile(format_type, "PNG",
                                            processed_image_state, 0, size)
    /\ pc' = "export_return"
    /\ UNCHANGED <<output_image, info_output, processed_image_state,
                   had_output, config, held_budget, processor>>

\* "Export as JPG" clicked.
export_to_jpg == export_to_format("jpg")

\* "Export as PNG" clicked.
export_to_png == export_to_format("png")

\* Gradio hands the returned path to the gr.File output of the button; no
\* handler reads that component.
ExportReturn ==
    /\ pc = "export_return"
    /\ pc' = "idle"
    /\ export_ret' = NoExport
    /\ UNCHANGED <<output_image, info_output, processed_image_state,
                   had_output, config, held_budget, processor>>

Next ==
    \/ ClickNoImage
    \/ ClickProcess
    \/ CropResize
    \/ ResizeAndDispatch
    \/ JpegQualityLoop
    \/ JpegScaleLoop
    \/ PngFull
    \/ PngPalette
    \/ PngScaleLoop
    \/ UIReturn
    \/ export_to_jpg
    \/ export_to_png
    \/ ExportReturn

Spec == Init /\ [][Next]_vars

ConfigSpec == InitConfig /\ [][Next]_vars

TypeOK ==
    /\ pc \in {"idle", "crop_resize", "resize", "jpeg_quality",
               "jpeg_scale", "png_full", "png_palette", "png_scale", "return",
               "export_return"}
    /\ file_size \in 0..MaxSize
    /\ quality \in 0..jpeg_initial_quality
    /\ had_output \in BOOLEAN

\* ------------------------------------------------------- claim vocabulary
Returning == pc = "return"

JpegRequest == IsJpeg(args.output_format)

FitKinds == {"Success", "ReducedSize"}

Indices == 1..Len(attempts)

LastAttempt == attempts[Len(attempts)]

FullSize(a) ==
    a.width = args.target_width /\ a.height = args.target_height

Downscaled(a) ==
    a.width < args.target_width \/ a.height < args.target_height

FullSizeFits ==
    {i \in Indices : /\ attempts[i].format = "JPEG"
                     /\ FullSize(attempts[i])
                     /\ attempts[i].within}

NothingFit == attempts # <<>> /\ \A i \in Indices : ~attempts[i].within

\* C1: JPEG at full resolution: when some quality level of the sequence
\* initial, initial-step, ..., floor (floor included) encodes within the
\* budget at the target dimensions, compress_jpeg returns a fit at the highest
\* such level and at the target dimensions; when the initial quality fits it
\* returns after that single attempt.
C1_HighestFittingQuality ==
    (Returning /\ JpegRequest /\ FullSizeFits # {}) =>
        /\ ret.info.kind = "Success"
        /\ \E i \in FullSizeFits : attempts[i].quality = ret.info.quality
        /\ \A i \in FullSizeFits : attempts[i].quality <= ret.info.quality
        /\ ret.image.width = args.target_width
        /\ ret.image.height = args.target_height
        /\ (attempts[1].within =>
              Len(attempts) = 1 /\ ret.info.quality = jpeg_initial_quality)

\* C2: whenever compress_jpeg or compress_png returns a success status, the
\* reported byte length is within the budget and is that of the attempt
\* performed last, which used the reported quality and dimensions and produced
\* the returned bitmap.
C2_FitSoundness ==
    (Returning /\ ret.info.kind \in FitKinds) =>
        /\ ret.info.file_size <= args.max_file_size_bytes
        /\ attempts # <<>>
        /\ LastAttempt.within
        /\ ret.info.file_size = file_size
        /\ LastAttempt.quality = ret.info.quality
        /\ LastAttempt.format = (IF JpegRequest THEN "JPEG" ELSE "PNG")
        /\ ret.image.width = LastAttempt.width
        /\ ret.image.height = LastAttempt.height
        /\ (ret.info.kind = "Success" => FullSize(LastAttempt))
        /\ (ret.info.kind = "ReducedSize" =>
              /\ LastAttempt.width = ret.info.width
              /\ LastAttempt.height = ret.info.height)

C2_Witness ==
    /\ Returning
    /\ ret.info.kind = "ReducedSize"
    /\ Len(attempts) >= 4
    /\ ret.info.file_size = args.max_file_size_bytes

\* C3: JPEG phase B: when no quality level fits at full resolution the search
\* attempts downscaled encodes, starting with the initial quality at scale
\* 0.9 and dimensions floor(target * scale), and the CouldNotFit warning is
\* returned only after such candidates were tried and none fit.
C3_PhaseBAttempted ==
    (/\ Returning
     /\ JpegRequest
     /\ ret.info.kind = "Warning"
     /\ ~ResizeRaises(ScaledDim(args.target_width, InitialScale),
                      ScaledDim(args.target_height, InitialScale))) =>
        \E i \in Indices :
            /\ Downscaled(attempts[i])
            /\ attempts[i].width = ScaledDim(args.target_width, InitialScale)
            /\ attempts[i].height = ScaledDim(args.target_height, InitialScale)
            /\ ~attempts[i].within

\* C4: PNG step 2: when the truecolor encode is over the budget, the bitmap is
\* not palette-indexed and the encode after palette conversion is within the
\* budget, compress_png returns the palette bitmap with a fit status, not the
\* warning, and attempts no downscale.
C4_PaletteFitIsSuccess ==
    (/\ Returning
     /\ ~JpegRequest
     /\ Len(attempts) >= 2
     /\ ~attempts[1].within
     /\ attempts[1].mode # "P"
     /\ attempts[2].mode = "P"
     /\ attempts[2].within) =>
        /\ ret.info.kind \in FitKinds
        /\ ret.image.mode = "P"
        /\ FullSize(ret.image)
        /\ \A i \in Indices : ~Downscaled(attempts[i])

\* C5: in every return path of compress_png the reported byte count is the
\* encoded size of the returned bitmap; after a scale loop without a fit the
\* returned bitmap is the last attempted (smallest-scale) one.
C5_ReturnedBitmapIsReportedEncode ==
    (Returning /\ ~JpegRequest /\ ret.image # None) =>
        /\ ret.info.file_size = file_size
        /\ ret.image.width = LastAttempt.width
        /\ ret.image.height = LastAttempt.height
        /\ ret.image.mode = LastAttempt.mode

JpegAttemptBound ==
    ((jpeg_initial_quality - jpeg_min_quality) \div jpeg_quality_step)
        * (1 + (initial_scale_factor - min_scale_factor) \div scale_factor_step)

PngAttemptBound ==
    2 + 1 + (initial_scale_factor - min_scale_factor) \div scale_factor_step

\* The number of encode attempts of one request stays within the bounds.
AttemptBounds ==
    (pc \notin {"idle", "crop_resize", "resize"}) =>
        Len(attempts) <= (IF JpegRequest THEN JpegAttemptBound
                          ELSE PngAttemptBound)

\* C6: for every bitmap and budget, including one no encode meets,
\* compress_jpeg and compress_png stop after a bounded number of encode
\* attempts and then return the CouldNotFit warning.
C6_BoundedThenCouldNotFit ==
    /\ AttemptBounds
    /\ (Returning /\ NothingFit) => ret.info.kind = "Warning"

\* C7: a request whose output_format is neither 'jpg'/'jpeg' nor 'png' fails
\* with an error and performs no encode attempt; JPEG encodes happen only for
\* a JPEG request and PNG encodes only for a PNG request.
C7_UnsupportedCodecRejected ==
    /\ (pc # "idle" /\ args.output_format \notin {"jpg", "jpeg", "png"}) =>
          /\ attempts = <<>>
          /\ (Returning => ret.info.kind = "Error")
    /\ \A i \in Indices :
          /\ (attempts[i].format = "JPEG" => JpegRequest)
          /\ (attempts[i].format = "PNG" => args.output_format = "png")

\* C8: when no attempted encode fits the budget, process_image still returns
\* a non-empty image with the CouldNotFit warning, never the error outcome.
C8_BudgetNotMetIsNotError ==
    (Returning /\ NothingFit) =>
        /\ ret.image # None
        /\ ret.info.kind # "Error"
        /\ ret.info.kind = "Warning"

FailedKinds == {"Error", "NoImage"}

\* The step that completes a request ending in an error: the handler returns
\* for a request without image or for one whose processing raised.
FailedRequestCompletes ==
    \/ pc = "idle" /\ pc' = "idle"
    \/ pc = "return" /\ ret.image = None /\ pc' = "idle"

JpegIndices == {i \in Indices : attempts[i].format = "JPEG"}

\* C11: for every configuration with jpeg_initial_quality > jpeg_min_quality
\* and jpeg_quality_step > 0, every encode attempt of compress_jpeg, the final
\* fallback included, uses a quality between jpeg_min_quality and
\* jpeg_initial_quality, and the fallback encode uses the floor quality.
C11_QualityWithinRange ==
    /\ \A i \in JpegIndices :
          /\ config.jpeg_min_quality <= attempts[i].quality
          /\ attempts[i].quality <= config.jpeg_initial_quality
    /\ (Returning /\ JpegRequest /\ ret.info.kind = "Warning") =>
          LastAttempt.quality = config.jpeg_min_quality

\* The "Export as JPG" handler has returned while the held image is the
\* product of a JPEG request that reported a fit.
JpgExportAfterFit ==
    /\ pc = "export_return"
    /\ export_ret.format_type = "jpg"
    /\ info_output.kind \in FitKinds
    /\ processed_image_state.quality > 0

\* The byte-size part of C12 alone.
ExportSizeWithinBudget ==
    JpgExportAfterFit => export_ret.size <= held_budget

\* C12: after a JPEG request reported a fit at quality q, "Export as JPG" of
\* the held image delivers a file whose byte size is within that request's
\* max file size: the exported encode has the quality and dimensions of the
\* encode that was checked against the budget.
C12_ExportWithinBudget ==
    JpgExportAfterFit =>
        /\ export_ret.format = "JPEG"
        /\ export_ret.size <= held_budget
        /\ export_ret.quality = info_output.quality
        /\ export_ret.width = processed_image_state.width
        /\ export_ret.height = processed_image_state.height

====
